---- MODULE Spec2Model ----
(***************************************************************************)
(* The exercise-repetition detectors (PushupDetector, SquatDetector,       *)
(* SitupDetector) and the geometry helpers they are built on.              *)
(*                                                                         *)
(* Number representation.  The source computes with IEEE doubles; the      *)
(* model computes with fixed-point integers:                               *)
(*   - a landmark score in [0,1] is an integer number of hundredths;       *)
(*   - a coordinate is an integer number of tenths;                        *)
(*   - a mean of scores is kept exactly, in sixtieths of a hundredth       *)
(*     (every mean of 1..6 integers is a multiple of 1/60);                *)
(*   - a distance has two more decimals than a coordinate;                 *)
(*   - an angle is a whole number of degrees, obtained from a cosine table *)
(*     with three decimals; the sit-up proxy is a whole number (floor).    *)
(***************************************************************************)
EXTENDS Integers, Sequences, FiniteSets, TLC

VARIABLES
    det,    \* the detector instance: its class and its six fields
    op,     \* the last operation called
    arg,    \* the argument of the last call: the pose passed to detectRep
    ret,    \* the value the last call returned
    pre,    \* what the last call found: fields of the detector before it
    fed,    \* the angles fed since construction, while a documented scenario
    armed,  \* a down frame was accepted and no frame above start since
    twin,   \* a detector constructed when det was last constructed or reset,
            \* fed the same frames as det since
    heap,   \* the detector objects constructed by two frame loops
    refs,   \* detectorRef.current of the two frame loops (0: null)
    target, \* the frame loop that acted last (0: none yet)
    downAccepted, \* the last frame that passed both gates had a metric
                  \* below endPositionThreshold
    held,   \* the last call found downAccepted set and followed a rejected call
    cam,    \* the LiveTrainingCamera component: its props, refs and state,
            \* its frame loop, and what it has called
    app     \* the TrainingModal component: its state, the calls of
            \* handleEndSession under way, and the rows written

vars == <<det, op, arg, ret, pre, fed, armed, twin, heap, refs, target,
          downAccepted, held, cam, app>>

---------------------------------------------------------------------------
(* Bounds of the model *)

MaxFrames == 22

\* detectRep calls between two resets, where a detector runs beside its twin
TwinFrames == 12

\* detectRep calls on each of two detectors that run side by side
TwoFrames == 12

\* detectRep calls on a detector fed frames whose two body sides differ
SidesFrames == 3

---------------------------------------------------------------------------
(* Number representation *)

ScoreScale == 100
CoordScale == 10
DistScale == 100
MeanScale == 60
CosScale == 1000

\* Math.min returning its first argument
MinFirst(a, b) == a

Min(a, b) == IF a < b THEN a ELSE b

RECURSIVE SumScores(_)
SumScores(s) == IF s = <<>> THEN 0 ELSE Head(s).score + SumScores(Tail(s))

\* floor(1000 * cos((h + 1/2) degrees)) for h = 0 .. 179
CosHalf ==
    <<  999,  999,  999,  998,  996,  995,  993,  991,  989,  986,
        983,  979,  976,  972,  968,  963,  958,  953,  948,  942,
        936,  930,  923,  917,  909,  902,  894,  887,  878,  870,
        861,  852,  843,  833,  824,  814,  803,  793,  782,  771,
        760,  748,  737,  725,  713,  700,  688,  675,  662,  649,
        636,  622,  608,  594,  580,  566,  551,  537,  522,  507,
        492,  477,  461,  446,  430,  414,  398,  382,  366,  350,
        333,  317,  300,  284,  267,  250,  233,  216,  199,  182,
        165,  147,  130,  113,   95,   78,   61,   43,   26,    8,
         -9,  -27,  -44,  -62,  -79,  -96, -114, -131, -148, -166,
       -183, -200, -217, -234, -251, -268, -285, -301, -318, -334,
       -351, -367, -383, -399, -415, -431, -447, -462, -478, -493,
       -508, -523, -538, -552, -567, -581, -595, -609, -623, -637,
       -650, -663, -676, -689, -701, -714, -726, -738, -749, -761,
       -772, -783, -794, -804, -815, -825, -834, -844, -853, -862,
       -871, -879, -888, -895, -903, -910, -918, -924, -931, -937,
       -943, -949, -954, -959, -964, -969, -973, -977, -980, -984,
       -987, -990, -992, -994, -996, -997, -999, -1000, -1000, -1000 >>

\* num / sqrt(den2) <= c / CosScale, decided without taking the root
CosLeq(num, den2, c) ==
    IF c >= 0
    THEN num <= 0 \/ num * num * CosScale * CosScale <= c * c * den2
    ELSE num < 0 /\ num * num * CosScale * CosScale >= c * c * den2

\* Math.acos(Math.min(1, Math.max(-1, num / sqrt(den2)))) * (180 / Math.PI),
\* to the whole degree: the number of half-degree marks the angle has passed.
\* The table is decreasing, so the marks passed are an initial segment.
RECURSIVE AcosSearch(_, _, _, _)
AcosSearch(num, den2, lo, hi) ==
    IF lo = hi
    THEN lo
    ELSE LET mid == (lo + hi) \div 2
         IN  IF CosLeq(num, den2, CosHalf[mid + 1])
             THEN AcosSearch(num, den2, mid + 1, hi)
             ELSE AcosSearch(num, den2, lo, mid)

AcosDeg(num, den2) == AcosSearch(num, den2, 0, 180)

\* floor(sqrt(n))
RECURSIVE SqrtSearch(_, _, _)
SqrtSearch(n, lo, hi) ==
    IF lo = hi
    THEN lo
    ELSE LET mid == (lo + hi + 1) \div 2
         IN  IF mid * mid <= n
             THEN SqrtSearch(n, mid, hi)
             ELSE SqrtSearch(n, lo, mid - 1)

ISqrt(n) == SqrtSearch(n, 0, 46340)

---------------------------------------------------------------------------
(* Geometry primitives *)

null == [null |-> TRUE]

\* calculateDistance adding the two offsets instead of taking the root of
\* their squares
calculateDistanceManhattan(p1, p2) ==
    ((IF p1.x >= p2.x THEN p1.x - p2.x ELSE p2.x - p1.x)
     + (IF p1.y >= p2.y THEN p1.y - p2.y ELSE p2.y - p1.y)) * DistScale

\* the distance in steps of 1 / (CoordScale * DistScale)
calculateDistance(p1, p2) ==
    ISqrt(((p1.x - p2.x) * (p1.x - p2.x) + (p1.y - p2.y) * (p1.y - p2.y))
          * DistScale * DistScale)

\* calculateAngle with the second ray taken from c to b
calculateAngleReversedRay(a, b, c) ==
    LET ba == [x |-> a.x - b.x, y |-> a.y - b.y]
        bc == [x |-> b.x - c.x, y |-> b.y - c.y]
        dotProduct == ba.x * bc.x + ba.y * bc.y
        baLength2 == ba.x * ba.x + ba.y * ba.y
        bcLength2 == bc.x * bc.x + bc.y * bc.y
    IN  IF baLength2 = 0 \/ bcLength2 = 0
        THEN 0
        ELSE AcosDeg(dotProduct, baLength2 * bcLength2)

calculateAngle(a, b, c) ==
    LET ba == [x |-> a.x - b.x, y |-> a.y - b.y]
        bc == [x |-> c.x - b.x, y |-> c.y - b.y]
        dotProduct == ba.x * bc.x + ba.y * bc.y
        baLength2 == ba.x * ba.x + ba.y * ba.y
        bcLength2 == bc.x * bc.x + bc.y * bc.y
    IN  IF baLength2 = 0 \/ bcLength2 = 0
        THEN 0
        ELSE AcosDeg(dotProduct, baLength2 * bcLength2)

VisibilityThreshold == 30

\* getKeypoint with the comparison kp.score >= 0.3
getKeypointInclusive(pose, index) ==
    IF index \in DOMAIN pose.keypoints /\ pose.keypoints[index].score >= VisibilityThreshold
    THEN pose.keypoints[index]
    ELSE null

getKeypoint(pose, index) ==
    IF index \in DOMAIN pose.keypoints /\ pose.keypoints[index].score > VisibilityThreshold
    THEN pose.keypoints[index]
    ELSE null

\* getMeanConfidence without the division by validKeypoints.length
getMeanConfidenceSum(keypoints) ==
    LET validKeypoints == SelectSeq(keypoints, LAMBDA kp : kp # null)
    IN  IF Len(validKeypoints) = 0
        THEN 0
        ELSE SumScores(validKeypoints) * MeanScale

\* getMeanConfidence dividing by keypoints.length, the absent entries included
getMeanConfidenceOverAll(keypoints) ==
    LET validKeypoints == SelectSeq(keypoints, LAMBDA kp : kp # null)
    IN  IF Len(validKeypoints) = 0
        THEN 0
        ELSE (SumScores(validKeypoints) * MeanScale) \div Len(keypoints)

getMeanConfidence(keypoints) ==
    LET validKeypoints == SelectSeq(keypoints, LAMBDA kp : kp # null)
    IN  IF Len(validKeypoints) = 0
        THEN 0
        ELSE (SumScores(validKeypoints) * MeanScale) \div Len(validKeypoints)

---------------------------------------------------------------------------
(* ExerciseDetector: the fields and the bookkeeping shared by the classes *)

Kinds == {"pushup", "squat", "situp"}

NewDetector(kind) ==
    [ kind              |-> kind,
      lastReps          |-> 0,
      isInDownPosition  |-> FALSE,
      lastAngle         |-> 0,
      formQuality       |-> "Good",
      frameCount        |-> 0,
      lastRepFrameCount |-> 0 ]

getReps(d) == d.lastReps

getFormFeedback(d) == d.formQuality

\* reset without this.lastRepFrameCount = 0
resetKeepsLastRepFrame(d) ==
    [d EXCEPT !.lastReps = 0,
              !.isInDownPosition = FALSE,
              !.lastAngle = 0,
              !.frameCount = 0]

reset(d) ==
    [d EXCEPT !.lastReps = 0,
              !.isInDownPosition = FALSE,
              !.lastAngle = 0,
              !.frameCount = 0,
              !.lastRepFrameCount = 0]

framesBetweenReps == 10
minFormQuality == 50

\* the start threshold read from the end threshold's field
startPositionThresholdAsEnd(kind) ==
    CASE kind = "pushup" -> 25
      [] kind = "squat"  -> 85
      [] kind = "situp"  -> 100

startPositionThreshold(kind) ==
    CASE kind = "pushup" -> 150
      [] kind = "squat"  -> 140
      [] kind = "situp"  -> 140

\* the end threshold read from the start threshold's field
endPositionThresholdAsStart(kind) ==
    CASE kind = "pushup" -> 150
      [] kind = "squat"  -> 140
      [] kind = "situp"  -> 140

endPositionThreshold(kind) ==
    CASE kind = "pushup" -> 25
      [] kind = "squat"  -> 85
      [] kind = "situp"  -> 100

\* the confidence compared with the visibility threshold of getKeypoint
lowConfidenceBelowVisibility(confidence) == confidence < VisibilityThreshold * MeanScale

\* confidence < this.minFormQuality
lowConfidence(confidence) == confidence < minFormQuality * MeanScale

\* the transition test without wasDown
isUpTransitionAnyUp(wasDown, isDown) == ~isDown

\* wasDown && !this.isInDownPosition
isUpTransition(wasDown, isDown) == wasDown /\ ~isDown

\* the debounce measured from the start of the session
debounceFromStart(d) == d.frameCount > framesBetweenReps

\* the debounce with >= in place of >
debounceInclusive(d) == d.frameCount - d.lastRepFrameCount >= framesBetweenReps

\* this.frameCount - this.lastRepFrameCount > this.framesBetweenReps
debounceElapsed(d) == d.frameCount - d.lastRepFrameCount > framesBetweenReps

\* countRep with the two counters mixed up
countRepFrames(d) ==
    [d EXCEPT !.lastReps = d.frameCount,
              !.lastRepFrameCount = d.frameCount,
              !.formQuality = "Perfect! Rep counted"]

\* countRep without this.lastReps++
countRepNoIncrement(d) ==
    [d EXCEPT !.lastRepFrameCount = d.frameCount,
              !.formQuality = "Perfect! Rep counted"]

\* countRep without this.lastRepFrameCount = this.frameCount
countRepNoStamp(d) ==
    [d EXCEPT !.lastReps = @ + 1,
              !.formQuality = "Perfect! Rep counted"]

\* countRep starting the frame counter again
countRepRestartsFrames(d) ==
    [d EXCEPT !.lastReps = @ + 1,
              !.frameCount = 0,
              !.lastRepFrameCount = 0,
              !.formQuality = "Perfect! Rep counted"]

\* this.lastReps++; this.lastRepFrameCount = this.frameCount;
\* this.formQuality = 'Perfect! Rep counted'
countRep(d) ==
    [d EXCEPT !.lastReps = @ + 1,
              !.lastRepFrameCount = d.frameCount,
              !.formQuality = "Perfect! Rep counted"]

Feedback(d, text) == [d EXCEPT !.formQuality = text]

Return(d, value) == [det |-> d, ret |-> value]

---------------------------------------------------------------------------
(* PushupDetector *)

PushupDetectRep(d0, pose) ==
    LET d1 == [d0 EXCEPT !.frameCount = @ + 1]
        leftShoulder  == getKeypoint(pose, 5)
        leftElbow     == getKeypoint(pose, 7)
        leftWrist     == getKeypoint(pose, 9)
        rightShoulder == getKeypoint(pose, 6)
        rightElbow    == getKeypoint(pose, 8)
        rightWrist    == getKeypoint(pose, 10)
    IN
    IF leftElbow = null \/ rightElbow = null
    THEN Return(Feedback(d1, "Position body with arms visible"), FALSE)
    ELSE
    LET confidence == getMeanConfidence(<<leftShoulder, leftElbow, leftWrist,
                                          rightShoulder, rightElbow, rightWrist>>)
        angle0 == 180
        angle1 == IF leftShoulder # null /\ leftWrist # null
                  THEN Min(angle0, calculateAngle(leftShoulder, leftElbow, leftWrist))
                  ELSE angle0
        elbowAngle == IF rightShoulder # null /\ rightWrist # null
                      THEN Min(angle1, calculateAngle(rightShoulder, rightElbow, rightWrist))
                      ELSE angle1
        d2 == [d1 EXCEPT !.lastAngle = elbowAngle]
    IN
    IF lowConfidence(confidence)
    THEN Return(Feedback(d2, "Low visibility - adjust your position"), FALSE)
    ELSE
    LET wasDown == d2.isInDownPosition
        d3 == [d2 EXCEPT !.isInDownPosition = elbowAngle < endPositionThreshold("pushup")]
    IN
    IF isUpTransition(wasDown, d3.isInDownPosition)
    THEN IF elbowAngle > startPositionThreshold("pushup") /\ debounceElapsed(d3)
         THEN Return(countRep(d3), TRUE)
         ELSE IF elbowAngle < startPositionThreshold("pushup")
              THEN Return(Feedback(d3, "Incomplete rep - extend fully"), FALSE)
              ELSE Return(d3, FALSE)
    ELSE IF d3.isInDownPosition
         THEN IF elbowAngle < 15
              THEN Return(Feedback(d3, "Perfect form! Keep going"), FALSE)
              ELSE IF elbowAngle < 50
                   THEN Return(Feedback(d3, "Good form - go lower"), FALSE)
                   ELSE Return(Feedback(d3, "Go lower for full rep"), FALSE)
         ELSE Return(Feedback(d3, "Ready - Lower your body"), FALSE)

---------------------------------------------------------------------------
(* SquatDetector *)

SquatDetectRep(d0, pose) ==
    LET d1 == [d0 EXCEPT !.frameCount = @ + 1]
        leftHip    == getKeypoint(pose, 11)
        leftKnee   == getKeypoint(pose, 13)
        leftAnkle  == getKeypoint(pose, 15)
        rightHip   == getKeypoint(pose, 12)
        rightKnee  == getKeypoint(pose, 14)
        rightAnkle == getKeypoint(pose, 16)
    IN
    IF leftKnee = null \/ rightKnee = null
    THEN Return(Feedback(d1, "Position legs for detection"), FALSE)
    ELSE
    LET confidence == getMeanConfidence(<<leftHip, leftKnee, leftAnkle,
                                          rightHip, rightKnee, rightAnkle>>)
        angle0 == 180
        angle1 == IF leftHip # null /\ leftAnkle # null
                  THEN Min(angle0, calculateAngle(leftHip, leftKnee, leftAnkle))
                  ELSE angle0
        kneeAngle == IF rightHip # null /\ rightAnkle # null
                     THEN Min(angle1, calculateAngle(rightHip, rightKnee, rightAnkle))
                     ELSE angle1
        d2 == [d1 EXCEPT !.lastAngle = kneeAngle]
    IN
    IF lowConfidence(confidence)
    THEN Return(Feedback(d2, "Low visibility - adjust your position"), FALSE)
    ELSE
    LET wasDown == d2.isInDownPosition
        d3 == [d2 EXCEPT !.isInDownPosition = kneeAngle < endPositionThreshold("squat")]
    IN
    IF isUpTransition(wasDown, d3.isInDownPosition)
    THEN IF kneeAngle > startPositionThreshold("squat") /\ debounceElapsed(d3)
         THEN Return(countRep(d3), TRUE)
         ELSE IF kneeAngle < startPositionThreshold("squat")
              THEN Return(Feedback(d3, "Incomplete rep - stand up fully"), FALSE)
              ELSE Return(d3, FALSE)
    ELSE IF d3.isInDownPosition
         THEN IF kneeAngle < 80
              THEN Return(Feedback(d3, "Excellent depth!"), FALSE)
              ELSE IF kneeAngle < 100
                   THEN Return(Feedback(d3, "Good depth - keep going"), FALSE)
                   ELSE Return(Feedback(d3, "Go lower for full squat"), FALSE)
         ELSE Return(Feedback(d3, "Ready - Squat down"), FALSE)

---------------------------------------------------------------------------
(* SitupDetector *)

SitupDetectRep(d0, pose) ==
    LET d1 == [d0 EXCEPT !.frameCount = @ + 1]
        nose          == getKeypoint(pose, 0)
        leftHip       == getKeypoint(pose, 11)
        rightHip      == getKeypoint(pose, 12)
        leftShoulder  == getKeypoint(pose, 5)
        rightShoulder == getKeypoint(pose, 6)
    IN
    IF nose = null \/ leftHip = null \/ rightHip = null
    THEN Return(Feedback(d1, "Position your body fully"), FALSE)
    ELSE
    LET confidence == getMeanConfidence(<<nose, leftHip, rightHip,
                                          leftShoulder, rightShoulder>>)
        hipMidpoint == [ x     |-> (leftHip.x + rightHip.x) \div 2,
                         y     |-> (leftHip.y + rightHip.y) \div 2,
                         score |-> 50 ]
        torsoDistance == calculateDistance(nose, hipMidpoint)
        normalizedAngle == Min((torsoDistance * 50) \div (CoordScale * DistScale), 180)
        d2 == [d1 EXCEPT !.lastAngle = normalizedAngle]
    IN
    IF lowConfidence(confidence)
    THEN Return(Feedback(d2, "Low visibility - adjust position"), FALSE)
    ELSE
    LET wasDown == d2.isInDownPosition
        d3 == [d2 EXCEPT !.isInDownPosition = normalizedAngle < endPositionThreshold("situp")]
    IN
    IF isUpTransition(wasDown, d3.isInDownPosition)
    THEN IF normalizedAngle > startPositionThreshold("situp") /\ debounceElapsed(d3)
         THEN Return(countRep(d3), TRUE)
         ELSE IF normalizedAngle < startPositionThreshold("situp")
              THEN Return(Feedback(d3, "Incomplete rep - lie back fully"), FALSE)
              ELSE Return(d3, FALSE)
    ELSE IF d3.isInDownPosition
         THEN IF normalizedAngle < 90
              THEN Return(Feedback(d3, "Great curl! Complete it"), FALSE)
              ELSE Return(Feedback(d3, "Keep curling up"), FALSE)
         ELSE Return(Feedback(d3, "Ready - Curl up"), FALSE)

\* the abstract detectRep, dispatched on the class of the instance
detectRep(d, pose) ==
    CASE d.kind = "pushup" -> PushupDetectRep(d, pose)
      [] d.kind = "squat"  -> SquatDetectRep(d, pose)
      [] d.kind = "situp"  -> SitupDetectRep(d, pose)

---------------------------------------------------------------------------
(* Property reads.  Reading .x, .y or .score of null raises a TypeError;   *)
(* Dereferenced is the set of values whose properties a detectRep call     *)
(* reads on a frame: the arguments of calculateAngle and calculateDistance *)
(* and the operands of the hip midpoint, on the path the call takes.       *)
(* getKeypoint reads kp.score behind `kp &&`, getMeanConfidence reads the  *)
(* scores of the filtered, non-null entries only.                          *)

\* the angle of one body side is measured: if (shoulder && wrist)
SideMeasured(near, joint, far) ==
    IF near # null /\ far # null THEN {near, joint, far} ELSE {}

\* the property reads with the early return taken on the right landmark only
DereferencedRightGuard(kind, pose) ==
    CASE kind = "pushup" ->
            IF getKeypoint(pose, 8) = null THEN {}
            ELSE SideMeasured(getKeypoint(pose, 5), getKeypoint(pose, 7), getKeypoint(pose, 9))
                 \cup SideMeasured(getKeypoint(pose, 6), getKeypoint(pose, 8), getKeypoint(pose, 10))
      [] kind = "squat" ->
            IF getKeypoint(pose, 14) = null THEN {}
            ELSE SideMeasured(getKeypoint(pose, 11), getKeypoint(pose, 13), getKeypoint(pose, 15))
                 \cup SideMeasured(getKeypoint(pose, 12), getKeypoint(pose, 14), getKeypoint(pose, 16))
      [] kind = "situp" ->
            IF getKeypoint(pose, 12) = null THEN {}
            ELSE {getKeypoint(pose, 0), getKeypoint(pose, 11), getKeypoint(pose, 12)}

Dereferenced(kind, pose) ==
    CASE kind = "pushup" ->
            IF getKeypoint(pose, 7) = null \/ getKeypoint(pose, 8) = null THEN {}
            ELSE SideMeasured(getKeypoint(pose, 5), getKeypoint(pose, 7), getKeypoint(pose, 9))
                 \cup SideMeasured(getKeypoint(pose, 6), getKeypoint(pose, 8), getKeypoint(pose, 10))
      [] kind = "squat" ->
            IF getKeypoint(pose, 13) = null \/ getKeypoint(pose, 14) = null THEN {}
            ELSE SideMeasured(getKeypoint(pose, 11), getKeypoint(pose, 13), getKeypoint(pose, 15))
                 \cup SideMeasured(getKeypoint(pose, 12), getKeypoint(pose, 14), getKeypoint(pose, 16))
      [] kind = "situp" ->
            IF \/ getKeypoint(pose, 0) = null
               \/ getKeypoint(pose, 11) = null
               \/ getKeypoint(pose, 12) = null
            THEN {}
            ELSE {getKeypoint(pose, 0), getKeypoint(pose, 11), getKeypoint(pose, 12)}

\* the call raises a TypeError
Throws(kind, pose) == null \in Dereferenced(kind, pose)

---------------------------------------------------------------------------
(* The frames fed to the detectors: 17 landmarks each, drawn from a few    *)
(* limb shapes and a few score profiles.                                   *)

Landmarks == 0 .. 16

Essential(kind) ==
    CASE kind = "pushup" -> {7, 8}
      [] kind = "squat"  -> {13, 14}
      [] kind = "situp"  -> {0, 11, 12}

Supporting(kind) ==
    CASE kind = "pushup" -> {5, 6, 9, 10}
      [] kind = "squat"  -> {11, 12, 15, 16}
      [] kind = "situp"  -> {5, 6}

Involved(kind) == Essential(kind) \cup Supporting(kind)

\* Offsets of the far end of a limb from its joint; the near end is at (2, 0)
\* from the joint.  Shape[n] bends the joint to n degrees (to the whole degree).
Shape ==
    [n \in {10, 15, 20, 70, 90, 100, 140, 150, 160, 170} |->
        CASE n = 10  -> <<17, 3>>
          [] n = 15  -> <<15, 4>>
          [] n = 20  -> <<11, 4>>
          [] n = 70  -> <<4, 11>>
          [] n = 90  -> <<0, 10>>
          [] n = 100 -> <<-3, 17>>
          [] n = 140 -> <<-6, 5>>
          [] n = 150 -> <<-19, 11>>
          [] n = 160 -> <<-11, 4>>
          [] n = 170 -> <<-17, 3>>]

\* Offsets of the nose from the midpoint of the hips, by the proxy they give
\* (50 times the distance, in coordinate units).
NoseAt ==
    [n \in {90, 100, 120, 140, 150, 200} |->
        CASE n = 90  -> <<0, -18>>
          [] n = 100 -> <<12, -16>>
          [] n = 120 -> <<0, -24>>
          [] n = 140 -> <<0, -28>>
          [] n = 150 -> <<18, -24>>
          [] n = 200 -> <<24, -32>>]

Point(px, py, s) == [x |-> px, y |-> py, score |-> s]

\* A body with the given elbow shapes (left, right), knee shapes, nose offset
\* and scores.  The right side mirrors the left.
Body(armL, armR, legL, legR, nose, scores) ==
    [ keypoints |->
        [i \in Landmarks |->
            CASE i \in 0 .. 4 -> Point(150 + nose[1], 200 + nose[2], scores[i])
              [] i = 5  -> Point(102, 100, scores[i])
              [] i = 6  -> Point(198, 100, scores[i])
              [] i = 7  -> Point(100, 100, scores[i])
              [] i = 8  -> Point(200, 100, scores[i])
              [] i = 9  -> Point(100 + armL[1], 100 + armL[2], scores[i])
              [] i = 10 -> Point(200 - armR[1], 100 + armR[2], scores[i])
              [] i = 11 -> Point(102, 200, scores[i])
              [] i = 12 -> Point(198, 200, scores[i])
              [] i = 13 -> Point(100, 200, scores[i])
              [] i = 14 -> Point(200, 200, scores[i])
              [] i = 15 -> Point(100 + legL[1], 200 + legL[2], scores[i])
              [] i = 16 -> Point(200 - legR[1], 200 + legR[2], scores[i])],
      score |-> ScoreScale ]

NoPose == [keypoints |-> <<>>, score |-> 0]

Scores(kind, essential, supporting) ==
    [i \in Landmarks |->
        IF i \in Essential(kind) THEN essential
        ELSE IF i \in Supporting(kind) THEN supporting
        ELSE ScoreScale]

FullScores == [i \in Landmarks |-> ScoreScale]

OneEssential(kind) == CHOOSE i \in Essential(kind) : \A j \in Essential(kind) : i <= j
OneSupporting(kind) == CHOOSE i \in Supporting(kind) : \A j \in Supporting(kind) : i >= j

\* The score profiles: everything sharp; everything dim; everything at the
\* aggregate's edge; dim support; hidden support; one essential landmark at
\* the visibility threshold; one supporting landmark hidden.
Profiles(kind) ==
    { Scores(kind, 40, 40),
      Scores(kind, 50, 50),
      Scores(kind, ScoreScale, 40),
      Scores(kind, ScoreScale, 20),
      [FullScores EXCEPT ![OneEssential(kind)] = VisibilityThreshold],
      [FullScores EXCEPT ![OneSupporting(kind)] = 20] }

Metrics(kind) ==
    CASE kind = "pushup" -> {10, 15, 20, 100, 150, 160, 170}
      [] kind = "squat"  -> {70, 90, 100, 140, 150}
      [] kind = "situp"  -> {90, 100, 120, 140, 150, 200}

DownMetric(kind) ==
    CASE kind = "pushup" -> 20
      [] kind = "squat"  -> 70
      [] kind = "situp"  -> 90

UpMetric(kind) ==
    CASE kind = "pushup" -> 170
      [] kind = "squat"  -> 150
      [] kind = "situp"  -> 150

\* the frame of the given kind's exercise at metric n, both sides alike
Frame(kind, n, scores) ==
    CASE kind = "pushup" -> Body(Shape[n], Shape[n], Shape[150], Shape[150], NoseAt[200], scores)
      [] kind = "squat"  -> Body(Shape[170], Shape[170], Shape[n], Shape[n], NoseAt[200], scores)
      [] kind = "situp"  -> Body(Shape[170], Shape[170], Shape[150], Shape[150], NoseAt[n], scores)

FramesOf(kind) ==
    { Frame(kind, n, FullScores) : n \in Metrics(kind) }
    \cup { Frame(kind, n, sc) : n \in {DownMetric(kind), UpMetric(kind)}, sc \in Profiles(kind) }

PushupPoses == FramesOf("pushup")
SquatPoses == FramesOf("squat")
SitupPoses == FramesOf("situp")

Poses(kind) ==
    CASE kind = "pushup" -> PushupPoses
      [] kind = "squat"  -> SquatPoses
      [] kind = "situp"  -> SitupPoses

---------------------------------------------------------------------------
(* What a frame is, read off its landmarks without running a detector *)

RECURSIVE SumOver(_, _)
SumOver(pose, S) ==
    IF S = {} THEN 0
    ELSE LET i == CHOOSE j \in S : TRUE
         IN  pose.keypoints[i].score + SumOver(pose, S \ {i})

Visible(pose, S) == {i \in S : pose.keypoints[i].score > VisibilityThreshold}

EssentialHidden(kind, pose) == Visible(pose, Essential(kind)) # Essential(kind)

\* the mean score of the visible involved landmarks is below 0.5
AggregateLow(kind, pose) ==
    LET vis == Visible(pose, Involved(kind))
    IN  vis = {} \/ SumOver(pose, vis) < minFormQuality * Cardinality(vis)

\* the mean score of the supporting landmarks is below 0.5
SupportLow(kind, pose) ==
    SumOver(pose, Supporting(kind)) < minFormQuality * Cardinality(Supporting(kind))

\* the landmark triples whose angle is measured, one per body side
Triples(kind) ==
    CASE kind = "pushup" -> { {5, 7, 9}, {6, 8, 10} }
      [] kind = "squat"  -> { {11, 13, 15}, {12, 14, 16} }
      [] kind = "situp"  -> {}

\* a frame of the given kind with exactly the given landmarks hidden
HiddenFrame(kind, hidden) ==
    Frame(kind, UpMetric(kind),
          [i \in Landmarks |-> IF i \in hidden THEN 0 ELSE ScoreScale])

\* the angle at the joint of a side, read off the landmarks of the frame:
\* 180 unless the three landmarks of the side are visible
SideMetric(pose, t) ==
    IF \A n \in 1 .. 3 : pose.keypoints[t[n]].score > VisibilityThreshold
    THEN calculateAngle(pose.keypoints[t[1]], pose.keypoints[t[2]], pose.keypoints[t[3]])
    ELSE 180

\* no side of the frame has its three landmarks visible
SidesOccluded(kind, pose) == \A t \in Triples(kind) : Visible(pose, t) # t

GatePassed(kind, pose) == ~EssentialHidden(kind, pose) /\ ~AggregateLow(kind, pose)

\* the joint angle of a frame with every landmark at full score and both
\* sides bent alike; -1 for any other frame
FrameAngle(kind, pose) ==
    LET k == pose.keypoints
        left  == IF kind = "pushup" THEN calculateAngle(k[5], k[7], k[9])
                 ELSE calculateAngle(k[11], k[13], k[15])
        right == IF kind = "pushup" THEN calculateAngle(k[6], k[8], k[10])
                 ELSE calculateAngle(k[12], k[14], k[16])
    IN  IF kind # "situp" /\ (\A i \in Landmarks : k[i].score = ScoreScale) /\ left = right
        THEN left
        ELSE -1

Scenarios(kind) ==
    CASE kind = "pushup" -> { <<170, 160, 20, 15, 160, 170>>, <<170, 20, 100, 170>> }
      [] kind = "squat"  -> { <<150, 90, 70, 150>> }
      [] kind = "situp"  -> {}

IsPrefix(s, t) == Len(s) <= Len(t) /\ SubSeq(t, 1, Len(s)) = s

Off == <<-1>>

---------------------------------------------------------------------------
(* The state machine: one detector, driven by a single frame loop *)

\* LiveTrainingCamera before its first render
NotRendered == [mounted |-> FALSE, boot |-> "none"]

\* TrainingModal before its first render
NotOpened == [open |-> FALSE]

Snapshot ==
    [ lastReps          |-> det.lastReps,
      isInDownPosition  |-> det.isInDownPosition,
      lastRepFrameCount |-> det.lastRepFrameCount,
      armed             |-> armed ]

Init ==
    /\ det \in {NewDetector(kind) : kind \in Kinds}
    /\ op = "new"
    /\ arg = NoPose
    /\ ret = FALSE
    /\ pre = [lastReps |-> 0, isInDownPosition |-> FALSE,
              lastRepFrameCount |-> 0, armed |-> FALSE]
    /\ fed = <<>>
    /\ armed = FALSE
    /\ twin = [det |-> det, ret |-> FALSE, afterReset |-> FALSE]
    /\ heap = <<>>
    /\ refs = <<0, 0>>
    /\ target = 0
    /\ downAccepted = FALSE
    /\ held = FALSE
    /\ cam = NotRendered
    /\ app = NotOpened

DetectRep(pose) ==
    /\ det.frameCount < MaxFrames
    /\ \E r \in {detectRep(det, pose)} :
           /\ det' = r.det
           /\ ret' = r.ret
           /\ armed' = IF ~GatePassed(det.kind, pose) THEN armed
                       ELSE IF r.det.lastAngle < endPositionThreshold(det.kind) THEN TRUE
                       ELSE IF r.det.lastAngle > startPositionThreshold(det.kind) THEN FALSE
                       ELSE armed
    /\ op' = "detectRep"
    /\ arg' = pose
    /\ pre' = Snapshot
    /\ fed' = LET a == FrameAngle(det.kind, pose)
              IN  IF /\ fed # Off
                     /\ a # -1
                     /\ \E sc \in Scenarios(det.kind) : IsPrefix(Append(fed, a), sc)
                  THEN Append(fed, a)
                  ELSE Off

Reset ==
    /\ det' = reset(det)
    /\ op' = "reset"
    /\ arg' = NoPose
    /\ ret' = FALSE
    /\ pre' = Snapshot
    /\ fed' = Off
    /\ armed' = FALSE

\* the frame passes both gates and its metric is below endPositionThreshold
AcceptedDown(pose) ==
    IF GatePassed(det.kind, pose)
    THEN det'.lastAngle < endPositionThreshold(det.kind)
    ELSE downAccepted

Next ==
    \/ \E pose \in Poses(det.kind) :
           /\ DetectRep(pose)
           /\ downAccepted' = AcceptedDown(pose)
           /\ held' = (downAccepted /\ op = "detectRep" /\ ~GatePassed(det.kind, arg))
           /\ UNCHANGED <<twin, heap, refs, target, cam, app>>
    \/ /\ Reset
       /\ downAccepted' = FALSE
       /\ held' = FALSE
       /\ UNCHANGED <<twin, heap, refs, target, cam, app>>

Spec == Init /\ [][Next]_vars

---------------------------------------------------------------------------
(* The detector beside a newly constructed one.  Both are fed the same     *)
(* frames; a reset of the detector replaces the twin by a new detector.    *)

TwinPoses(kind) ==
    { Frame(kind, n, FullScores) : n \in Metrics(kind) }
    \cup { Frame(kind, UpMetric(kind), Scores(kind, 40, 40)),
           Frame(kind, DownMetric(kind),
                 [FullScores EXCEPT ![OneEssential(kind)] = VisibilityThreshold]) }

TwinDetectRep(pose) ==
    /\ det.frameCount < TwinFrames
    /\ DetectRep(pose)
    /\ LET r == detectRep(twin.det, pose)
       IN  twin' = [det |-> r.det, ret |-> r.ret, afterReset |-> twin.afterReset]
    /\ UNCHANGED <<heap, refs, target, downAccepted, held, cam, app>>

TwinReset ==
    /\ Reset
    /\ twin' = [det |-> NewDetector(det.kind), ret |-> FALSE, afterReset |-> TRUE]
    /\ UNCHANGED <<heap, refs, target, downAccepted, held, cam, app>>

NextTwin ==
    \/ \E pose \in TwinPoses(det.kind) : TwinDetectRep(pose)
    \/ TwinReset

SpecTwin == Init /\ [][NextTwin]_vars

---------------------------------------------------------------------------
(* Two detectors side by side.  Each frame loop constructs its detector    *)
(* with `new` and holds it in its detectorRef; the objects live in heap,   *)
(* and an object's address is its index there.                             *)

\* `new` handing out the address of the first object again
AllocateShared(h) == 1

\* `new`: the address of an object that did not exist before
Allocate(h) == Len(h) + 1

Store(h, a, d) ==
    [k \in 1 .. (IF a > Len(h) THEN a ELSE Len(h)) |-> IF k = a THEN d ELSE h[k]]

TwoPoses(kind) ==
    { Frame(kind, DownMetric(kind), FullScores),
      Frame(kind, UpMetric(kind), FullScores) }

Construct(i, kind) ==
    /\ refs[i] = 0
    /\ LET a == Allocate(heap)
       IN  /\ heap' = Store(heap, a, NewDetector(kind))
           /\ refs' = [refs EXCEPT ![i] = a]
    /\ target' = i
    /\ UNCHANGED <<det, op, arg, ret, pre, fed, armed, twin, downAccepted, held, cam, app>>

DetectRepOn(i) ==
    /\ refs[i] # 0
    /\ heap[refs[i]].frameCount < TwoFrames
    /\ \E pose \in TwoPoses(heap[refs[i]].kind) :
           heap' = [heap EXCEPT ![refs[i]] = detectRep(@, pose).det]
    /\ target' = i
    /\ UNCHANGED <<det, op, arg, ret, pre, fed, armed, twin, refs, downAccepted, held, cam, app>>

ResetOn(i) ==
    /\ refs[i] # 0
    /\ heap' = [heap EXCEPT ![refs[i]] = reset(@)]
    /\ target' = i
    /\ UNCHANGED <<det, op, arg, ret, pre, fed, armed, twin, refs, downAccepted, held, cam, app>>

InitTwo == Init /\ det.kind = "pushup"

NextTwo ==
    \E i \in {1, 2} :
        \/ \E kind \in Kinds : Construct(i, kind)
        \/ DetectRepOn(i)
        \/ ResetOn(i)

SpecTwo == InitTwo /\ [][NextTwo]_vars

---------------------------------------------------------------------------
(* The push-up and the squat detector on frames whose left and right side  *)
(* are bent differently and are hidden separately.                         *)

SideAngles(kind) ==
    CASE kind = "pushup" -> {20, 100, 170}
      [] kind = "squat"  -> {70, 100, 150}

\* the landmark triple of the left and of the right side: near end, joint,
\* far end
LeftTriple(kind) ==
    CASE kind = "pushup" -> <<5, 7, 9>>
      [] kind = "squat"  -> <<11, 13, 15>>

RightTriple(kind) ==
    CASE kind = "pushup" -> <<6, 8, 10>>
      [] kind = "squat"  -> <<12, 14, 16>>

\* everything sharp; the far end of the left side hidden; the near end of
\* the right side hidden; both sides hidden behind sharp joints; both sides
\* hidden behind dim joints; the left joint hidden
SidesProfiles(kind) ==
    { FullScores,
      [FullScores EXCEPT ![LeftTriple(kind)[3]] = 20],
      [FullScores EXCEPT ![RightTriple(kind)[1]] = 20],
      Scores(kind, ScoreScale, 20),
      Scores(kind, 40, 20),
      [FullScores EXCEPT ![LeftTriple(kind)[2]] = VisibilityThreshold] }

SidesFrame(kind, l, r, scores) ==
    CASE kind = "pushup" -> Body(Shape[l], Shape[r], Shape[150], Shape[150], NoseAt[200], scores)
      [] kind = "squat"  -> Body(Shape[170], Shape[170], Shape[l], Shape[r], NoseAt[200], scores)

PushupSidesPoses ==
    { SidesFrame("pushup", l, r, sc) :
        l \in SideAngles("pushup"), r \in SideAngles("pushup"), sc \in SidesProfiles("pushup") }

SquatSidesPoses ==
    { SidesFrame("squat", l, r, sc) :
        l \in SideAngles("squat"), r \in SideAngles("squat"), sc \in SidesProfiles("squat") }

SidesPoses(kind) ==
    CASE kind = "pushup" -> PushupSidesPoses
      [] kind = "squat"  -> SquatSidesPoses

InitSides == Init /\ det.kind \in {"pushup", "squat"}

SidesDetectRep(pose) ==
    /\ det.frameCount < SidesFrames
    /\ DetectRep(pose)
    /\ UNCHANGED <<twin, heap, refs, target, downAccepted, held, cam, app>>

NextSides == \E pose \in SidesPoses(det.kind) : SidesDetectRep(pose)

SpecSides == InitSides /\ [][NextSides]_vars

---------------------------------------------------------------------------
(* The helpers called on their own, on inputs drawn from small sets:       *)
(* getKeypoint and getMeanConfidence on short poses with scores around the *)
(* visibility threshold, calculateAngle on the points of a small grid, and *)
(* the sit-up proxy of a new SitupDetector on bodies whose nose, left hip  *)
(* and left shoulder are moved about.                                      *)

\* entries of the poses handed to getKeypoint and getMeanConfidence
MaxKeypoints == 3

\* largest coordinate of the points handed to calculateAngle
GridMax == 3

HelperScores == {0, 29, 30, 31, 50, 100}

\* the poses of up to MaxKeypoints entries, indexed from 0
HelperPoses ==
    UNION { { [keypoints |-> [i \in 0 .. (n - 1) |-> Point(0, 0, sc[i])],
               score |-> ScoreScale] : sc \in [0 .. (n - 1) -> HelperScores] } :
            n \in 0 .. MaxKeypoints }

GridPoints == { Point(px, py, ScoreScale) : px \in 0 .. GridMax, py \in 0 .. GridMax }

\* offsets of the nose from (150, 200), positions of the left hip and of the
\* left shoulder; the right hip stays at (198, 200)
NoseOffsets ==
    { <<0, 0>>, <<2, 0>>, <<0, -18>>, <<12, -16>>, <<7, -20>>, <<18, -24>>,
      <<0, -36>>, <<24, -32>> }

LeftHips == { <<102, 200>>, <<110, 204>> }

LeftShoulders == { <<102, 100>>, <<60, 40>> }

\* everything sharp; shoulders hidden; everything dim; the nose at the
\* visibility threshold
SitupProfiles ==
    { FullScores,
      Scores("situp", ScoreScale, 20),
      Scores("situp", 40, 40),
      [FullScores EXCEPT ![0] = VisibilityThreshold] }

SitupBody(nose, hip, shoulder, scores) ==
    [ keypoints |->
        [ Body(Shape[170], Shape[170], Shape[150], Shape[150], nose, scores).keypoints
            EXCEPT ![11] = Point(hip[1], hip[2], scores[11]),
                   ![5]  = Point(shoulder[1], shoulder[2], scores[5]) ],
      score |-> ScoreScale ]

SitupBodies ==
    { SitupBody(n, h, s, sc) :
        n \in NoseOffsets, h \in LeftHips, s \in LeftShoulders, sc \in SitupProfiles }

\* normalizedAngle as a new SitupDetector leaves it in lastAngle after one
\* frame, and what detectRep returned
SitupMetric(pose) ==
    LET r == detectRep(NewDetector("situp"), pose)
    IN  [lastAngle |-> r.det.lastAngle, ret |-> r.ret]

\* one call per behaviour: the helpers keep no state between calls
HelperCall(name, input, output) ==
    /\ op = "new"
    /\ op' = name
    /\ arg' = input
    /\ ret' = output
    /\ UNCHANGED <<det, pre, fed, armed, twin, heap, refs, target,
                   downAccepted, held, cam, app>>

GetKeypoint(pose, index) ==
    HelperCall("getKeypoint", [pose |-> pose, index |-> index], getKeypoint(pose, index))

\* the call the detectors make: getMeanConfidence of what getKeypoint gave
GetMeanConfidence(pose) ==
    HelperCall("getMeanConfidence", pose,
               getMeanConfidence([j \in 1 .. MaxKeypoints |-> getKeypoint(pose, j - 1)]))

CalculateAngle(a, b, c) ==
    HelperCall("calculateAngle", <<a, b, c>>, calculateAngle(a, b, c))

SitupNormalizedAngle(pose) ==
    HelperCall("normalizedAngle", pose, SitupMetric(pose))

InitHelpers == Init /\ det.kind = "situp"

NextHelpers ==
    \/ \E pose \in HelperPoses, index \in 0 .. MaxKeypoints : GetKeypoint(pose, index)
    \/ \E pose \in HelperPoses : GetMeanConfidence(pose)
    \/ \E a \in GridPoints, b \in GridPoints, c \in GridPoints : CalculateAngle(a, b, c)
    \/ \E pose \in SitupBodies : SitupNormalizedAngle(pose)

SpecHelpers == InitHelpers /\ [][NextHelpers]_vars

---------------------------------------------------------------------------
(* LiveTrainingCamera: the component from its first render to after its    *)
(* unmount.  det is detectorRef.current once cam.hasDetector is set.  The  *)
(* frame loop is kept as two counts, the animation frames requested and    *)
(* not yet fired or cancelled (pending) and the detectFrame calls awaiting *)
(* estimatePoses (inflight), so that a second loop or a doubled request    *)
(* would show.  Every continuation of an await and every callback runs     *)
(* whether or not the component is still mounted, as in the source, which  *)
(* keeps no flag for it; React sets videoRef.current and canvasRef.current *)
(* to null at unmount.  canvas.getContext('2d') is taken to succeed.       *)
(* Some fields record what the component has done: completions (times the *)
(* completion branch was taken), counted (detectRep calls that returned    *)
(* true) and reported (the last value passed to onRepsUpdate), all three   *)
(* since the last initializeDetector; discarded (reps of the detectors     *)
(* replaced so far); lateRequest and lateDetectRep (an animation frame was *)
(* requested, detectRep was called, after the cleanup).                    *)

\* detectRep calls on one detector instance
CameraFrames == 22

\* runs of initializeDetector per behaviour
MaxInits == 2

CameraKinds == {"pushup", "squat"}

\* the requiredReps prop: <<n>>, or <<>> where the parent passes none
\* (undefined)
RequiredRepsProps == { <<1>>, <<>> }

\* newReps >= requiredReps, false against undefined
AtLeast(newReps, requiredReps) ==
    requiredReps # <<>> /\ newReps >= requiredReps[1]

\* animationIdRef.current = requestAnimationFrame(detectFrame)
requestAnimationFrame(c) ==
    [c EXCEPT !.pending = @ + 1, !.hasId = TRUE, !.idPending = TRUE,
              !.lateRequest = @ \/ ~c.mounted]

\* if (animationIdRef.current) cancelAnimationFrame(animationIdRef.current):
\* a request that has fired already is not touched
cancelAnimationFrame(c) ==
    IF c.hasId /\ c.idPending
    THEN [c EXCEPT !.pending = @ - 1, !.idPending = FALSE]
    ELSE c

\* the refs detectFrame needs before it estimates a pose
refsReady(c) == c.mounted /\ c.estimator /\ c.hasDetector

\* the start of detectFrame with the early return left out: the frame is
\* requested and the call goes on to estimatePoses
detectFrameEntryNoReturn(c) ==
    IF ~refsReady(c)
    THEN [requestAnimationFrame(c) EXCEPT !.inflight = @ + 1]
    ELSE [c EXCEPT !.inflight = @ + 1]

\* the start of detectFrame, up to `await estimatePoses` or the early return
detectFrameEntry(c) ==
    IF ~refsReady(c)
    THEN requestAnimationFrame(c)
    ELSE [c EXCEPT !.inflight = @ + 1]

\* initializeDetector keeping an instance it finds
initializeDetectorKeeps(c, d) ==
    IF c.hasDetector THEN d ELSE NewDetector(c.exerciseType)

\* initializeDetector: detectorRef.current = new ...Detector()
initializeDetector(c, d) == NewDetector(c.exerciseType)

CamStep(name) ==
    /\ op' = name
    /\ UNCHANGED <<pre, fed, armed, twin, heap, refs, target,
                   downAccepted, held, app>>

\* the first render and the mount effect: loadLibraries is under way
Mount(kind, requiredReps, onComplete) ==
    /\ cam = NotRendered
    /\ cam' = [ mounted |-> TRUE, boot |-> "libraries",
                exerciseType |-> kind, requiredReps |-> requiredReps,
                onComplete |-> onComplete,
                librariesLoaded |-> FALSE, effectDue |-> FALSE,
                hasDetector |-> FALSE, estimator |-> FALSE,
                pending |-> 0, hasId |-> FALSE, idPending |-> FALSE,
                inflight |-> 0,
                completionTriggered |-> FALSE, isComplete |-> FALSE,
                reps |-> 0, inits |-> 0,
                completions |-> 0, counted |-> 0, reported |-> <<>>,
                discarded |-> 0,
                lateRequest |-> FALSE, lateDetectRep |-> FALSE ]
    /\ CamStep("mount")
    /\ UNCHANGED <<det, arg, ret>>

\* the scripts have loaded: setLibrariesLoaded(true); initializeCamera()
\* (or a script failed to load)
LibrariesLoaded(ok) ==
    /\ cam.boot = "libraries"
    /\ cam' = IF ok
              THEN [cam EXCEPT !.boot = "camera", !.librariesLoaded = TRUE,
                               !.effectDue = cam.mounted]
              ELSE [cam EXCEPT !.boot = "failed"]
    /\ CamStep("loadLibraries")
    /\ UNCHANGED <<det, arg, ret>>

\* getUserMedia answers; the stream is attached only if videoRef.current
CameraAnswers(ok) ==
    /\ cam.boot = "camera"
    /\ cam' = [cam EXCEPT !.boot = IF ok /\ cam.mounted THEN "metadata" ELSE "failed"]
    /\ CamStep("initializeCamera")
    /\ UNCHANGED <<det, arg, ret>>

\* onloadedmetadata: play(); startDetection(), which awaits loadPoseDetector
LoadedMetadata ==
    /\ cam.boot = "metadata"
    /\ cam' = [cam EXCEPT !.boot = "estimator"]
    /\ CamStep("startDetection")
    /\ UNCHANGED <<det, arg, ret>>

\* createDetector answers (or fails, leaving detectorInstanceRef.current
\* null); startDetection goes on to its first detectFrame()
EstimatorAnswers(ok) ==
    /\ cam.boot = "estimator"
    /\ cam' = detectFrameEntry([cam EXCEPT !.boot = "running", !.estimator = ok])
    /\ CamStep("loadPoseDetector")
    /\ UNCHANGED <<det, arg, ret>>

\* the browser runs a requested animation frame, the oldest first
AnimationFrame ==
    /\ cam.boot # "none"
    /\ cam.pending > 0
    /\ cam' = detectFrameEntry([cam EXCEPT !.pending = @ - 1,
                                           !.idPending = @ /\ cam.pending > 1])
    /\ CamStep("detectFrame")
    /\ UNCHANGED <<det, arg, ret>>

\* the rest of detectFrame after estimatePoses gave a pose
PoseFound(pose) ==
    /\ cam.boot = "running"
    /\ cam.inflight > 0
    /\ det.frameCount < CameraFrames
    /\ \E r \in {detectRep(det, pose)} :
       LET newReps == getReps(r.det)
           complete == /\ r.ret
                       /\ AtLeast(newReps, cam.requiredReps)
                       /\ ~cam.completionTriggered
                       /\ cam.onComplete
           c1 == [cam EXCEPT
                     !.inflight = @ - 1,
                     !.lateDetectRep = @ \/ ~cam.mounted,
                     !.reps = IF r.ret THEN newReps ELSE @,
                     !.reported = IF r.ret THEN <<newReps>> ELSE @,
                     !.counted = IF r.ret THEN @ + 1 ELSE @,
                     !.completionTriggered = @ \/ complete,
                     !.isComplete = @ \/ complete,
                     !.completions = IF complete THEN @ + 1 ELSE @]
       IN  /\ det' = r.det
           /\ ret' = r.ret
           /\ arg' = pose
           /\ cam' = requestAnimationFrame(c1)
    /\ CamStep("detectRep")

\* the rest of detectFrame after estimatePoses gave no pose, or threw
PoseMissing ==
    /\ cam.boot = "running"
    /\ cam.inflight > 0
    /\ cam' = requestAnimationFrame([cam EXCEPT !.inflight = @ - 1])
    /\ CamStep("estimatePoses")
    /\ UNCHANGED <<det, arg, ret>>

\* the parent renders the component with another exerciseType
ChangeExerciseType(kind) ==
    /\ cam.boot # "none"
    /\ cam.mounted
    /\ kind # cam.exerciseType
    /\ cam.inits < MaxInits
    /\ cam' = [cam EXCEPT !.exerciseType = kind, !.effectDue = TRUE]
    /\ CamStep("render")
    /\ UNCHANGED <<det, arg, ret>>

\* the effect on [exerciseType, librariesLoaded]
ExerciseTypeEffect ==
    /\ cam.boot # "none"
    /\ cam.mounted
    /\ cam.effectDue
    /\ IF cam.librariesLoaded
       THEN /\ det' = initializeDetector(cam, det)
            /\ cam' = [cam EXCEPT !.effectDue = FALSE, !.hasDetector = TRUE,
                                  !.inits = @ + 1,
                                  !.completionTriggered = FALSE,
                                  !.isComplete = FALSE, !.reps = 0,
                                  !.completions = 0, !.counted = 0,
                                  !.reported = <<>>,
                                  !.discarded = IF cam.hasDetector
                                                THEN @ + getReps(det) ELSE @]
       ELSE /\ det' = det
            /\ cam' = [cam EXCEPT !.effectDue = FALSE]
    /\ CamStep("exerciseTypeEffect")
    /\ UNCHANGED <<arg, ret>>

\* unmount: the refs to the video and the canvas go null and the cleanup of
\* the mount effect runs
Cleanup ==
    /\ cam.boot # "none"
    /\ cam.mounted
    /\ cam' = [cancelAnimationFrame(cam) EXCEPT
                  !.mounted = FALSE, !.effectDue = FALSE,
                  !.completionTriggered = FALSE, !.isComplete = FALSE]
    /\ CamStep("cleanup")
    /\ UNCHANGED <<det, arg, ret>>

InitCamera == Init /\ det.kind = "pushup"

NextCamera ==
    \/ \E kind \in CameraKinds, requiredReps \in RequiredRepsProps,
          onComplete \in BOOLEAN : Mount(kind, requiredReps, onComplete)
    \/ \E ok \in BOOLEAN : LibrariesLoaded(ok)
    \/ \E ok \in BOOLEAN : CameraAnswers(ok)
    \/ LoadedMetadata
    \/ \E ok \in BOOLEAN : EstimatorAnswers(ok)
    \/ AnimationFrame
    \/ \E pose \in TwoPoses(det.kind) : PoseFound(pose)
    \/ PoseMissing
    \/ \E kind \in CameraKinds : ChangeExerciseType(kind)
    \/ ExerciseTypeEffect
    \/ Cleanup

SpecCamera == InitCamera /\ [][NextCamera]_vars

---------------------------------------------------------------------------
(* TrainingModal (App.tsx): the state of the component, the calls of the   *)
(* async handleEndSession under way, each with the values its closure      *)
(* captured, and the rows it has written.  Scores of XP are whole numbers; *)
(* the factors 1.5, 2.5, 3.5 are kept as halves.  session_duration, a      *)
(* clock reading that only enters the inserted row, is left out.           *)

\* largest rep count the camera reports to onRepsUpdate
MaxReps == 3

\* the requiredReps prop of the modal
RequiredReps == 2

\* calls of handleEndSession that pass the guard, per behaviour
MaxCalls == 1

\* twice EXERCISE_XP[exercise] || 1
ExerciseXp2(exercise) ==
    CASE exercise = "pushup" -> 4
      [] exercise = "squat"  -> 4
      [] exercise = "situp"  -> 3
      [] OTHER -> 2

Ranks == {"E", "D"}

\* twice RANK_MULTIPLIERS[userRank] || 1.0
Multiplier2(rank) ==
    CASE rank = "E" -> 2
      [] rank = "D" -> 3
      [] rank = "C" -> 4
      [] rank = "B" -> 5
      [] rank = "A" -> 6
      [] rank = "S" -> 7
      [] rank = "SS" -> 8
      [] OTHER -> 2

\* Math.floor(Math.floor(reps * xp) * multiplier)
XpEarned(reps, exercise, rank) ==
    (((reps * ExerciseXp2(exercise)) \div 2) * Multiplier2(rank)) \div 2

\* the users row of the signed-in user as the modal first finds it
UserRows ==
    { [total_xp |-> 0, streak_days |-> 0, last_active |-> "never"],
      [total_xp |-> 7, streak_days |-> 2, last_active |-> "yesterday"] }

\* the streak written back: unchanged on the same day, one more the day
\* after, 1 otherwise
NewStreakDays(userData) ==
    IF userData.last_active = "today" THEN userData.streak_days
    ELSE IF userData.last_active = "yesterday" THEN userData.streak_days + 1
    ELSE 1

\* the guard of handleEndSession with the rep count left out
endSessionAllowedAnyReps(a) == a.user # "none" /\ a.sessionStartTime # 0

\* the negation of `!user || !sessionStartTime || reps < requiredReps`
endSessionAllowed(a) ==
    a.user # "none" /\ a.sessionStartTime # 0 /\ a.reps >= a.requiredReps

\* the four state fields handleEndSession and handleCameraClose reset
SessionReset(a) ==
    [a EXCEPT !.isTraining = FALSE, !.selectedExercise = "none",
              !.reps = 0, !.sessionStartTime = 0]

AppStep(name, value) ==
    /\ op' = name
    /\ ret' = value
    /\ UNCHANGED <<det, arg, pre, fed, armed, twin, heap, refs, target,
                   downAccepted, held, cam>>

\* the first render of the modal, with its props and the signed-in user
OpenModal(user, rank, row) ==
    /\ app = NotOpened
    /\ app' = [ open |-> TRUE, user |-> user, userRank |-> rank,
                requiredReps |-> RequiredReps,
                selectedExercise |-> "none", isTraining |-> FALSE,
                reps |-> 0, sessionStartTime |-> 0,
                cameraMounted |-> FALSE, calls |-> {}, started |-> 0,
                users |-> row, sessions |-> <<>>, completed |-> <<>> ]
    /\ AppStep("render", FALSE)

\* useAuth hands the component another user (sign-in, sign-out)
AuthChange(user) ==
    /\ app.open
    /\ user # app.user
    /\ app' = [app EXCEPT !.user = user]
    /\ AppStep("useAuth", FALSE)

handleStartTraining(exercise) ==
    /\ app.open
    /\ ~app.isTraining
    /\ app' = [app EXCEPT !.selectedExercise = exercise, !.isTraining = TRUE,
                          !.reps = 0, !.sessionStartTime = 1,
                          !.cameraMounted = TRUE]
    /\ AppStep("handleStartTraining", FALSE)

\* onRepsUpdate={setReps}: the frame loop of a camera reports a count; the
\* loop can outlive the camera it belongs to
OnRepsUpdate(n) ==
    /\ app.open
    /\ app.cameraMounted
    /\ app' = [app EXCEPT !.reps = n]
    /\ AppStep("onRepsUpdate", FALSE)

\* the synchronous part of handleEndSession: the guard, and for a call that
\* passes it the values it goes on with.  The handler is called in any state;
\* the button's disabled attribute is not relied upon.
handleEndSession ==
    /\ app.open
    /\ IF ~endSessionAllowed(app)
       THEN /\ app' = app
            /\ AppStep("handleEndSession", FALSE)
       ELSE /\ app.started < MaxCalls
            /\ app' = [app EXCEPT
                   !.started = @ + 1,
                   !.calls = @ \cup
                       {[ id |-> app.started + 1, at |-> "select",
                          user |-> app.user, reps |-> app.reps,
                          sessionStartTime |-> app.sessionStartTime,
                          requiredReps |-> app.requiredReps,
                          selectedExercise |-> app.selectedExercise,
                          xpEarned |-> XpEarned(app.reps, app.selectedExercise,
                                                app.userRank),
                          userData |-> app.users ]}]
            /\ AppStep("handleEndSession", TRUE)

\* the select of the users row answers: an error is thrown to the catch,
\* which writes nothing; a row is kept as userData
SelectAnswers(call, failed) ==
    /\ call \in app.calls
    /\ call.at = "select"
    /\ app' = [app EXCEPT !.calls =
                   IF failed THEN @ \ {call}
                   ELSE (@ \ {call}) \cup {[call EXCEPT !.at = "insert",
                                                        !.userData = app.users]}]
    /\ AppStep("select", ~failed)

\* the insert into exercise_sessions answers; its result is not looked at
InsertAnswers(call, failed) ==
    /\ call \in app.calls
    /\ call.at = "insert"
    /\ app' = [app EXCEPT
           !.sessions = IF failed THEN @
                        ELSE Append(@, [ user_id |-> call.user,
                                         exercise_type |-> call.selectedExercise,
                                         reps_completed |-> call.reps,
                                         xp_earned |-> call.xpEarned,
                                         sessionStartTime |-> call.sessionStartTime,
                                         requiredReps |-> call.requiredReps ]),
           !.calls = (@ \ {call}) \cup {[call EXCEPT !.at = "update"]}]
    /\ AppStep("insert", ~failed)

\* the update of the users row answers; the handler then resets the state,
\* calls onSessionComplete and onClose
UpdateAnswers(call, failed) ==
    /\ call \in app.calls
    /\ call.at = "update"
    /\ app' = [SessionReset(app) EXCEPT
           !.users = IF failed THEN @
                     ELSE [ total_xp |-> call.userData.total_xp + call.xpEarned,
                            streak_days |-> NewStreakDays(call.userData),
                            last_active |-> "today" ],
           !.completed = Append(@, [ xpEarned |-> call.xpEarned,
                                     reps |-> call.reps,
                                     user |-> call.user,
                                     sessionStartTime |-> call.sessionStartTime,
                                     requiredReps |-> call.requiredReps ]),
           !.calls = @ \ {call}]
    /\ AppStep("update", ~failed)

handleCameraClose ==
    /\ app.open
    /\ app.isTraining
    /\ app' = SessionReset(app)
    /\ AppStep("handleCameraClose", FALSE)

\* the calls of handleEndSession that await an answer
Calls == IF app.open THEN app.calls ELSE {}

InitApp == Init /\ det.kind = "pushup"

NextApp ==
    \/ \E user \in {"none", "u1"}, rank \in Ranks, row \in UserRows :
           OpenModal(user, rank, row)
    \/ \E user \in {"none", "u1"} : AuthChange(user)
    \/ \E exercise \in {"pushup", "situp"} : handleStartTraining(exercise)
    \/ \E n \in 1 .. MaxReps : OnRepsUpdate(n)
    \/ handleEndSession
    \/ \E call \in Calls, failed \in BOOLEAN : SelectAnswers(call, failed)
    \/ \E call \in Calls, failed \in BOOLEAN : InsertAnswers(call, failed)
    \/ \E call \in Calls, failed \in BOOLEAN : UpdateAnswers(call, failed)
    \/ handleCameraClose

SpecApp == InitApp /\ [][NextApp]_vars

---------------------------------------------------------------------------
(* Properties *)

LowVisibilityMessage(kind) ==
    IF kind = "situp"
    THEN "Low visibility - adjust position"
    ELSE "Low visibility - adjust your position"

PositionMessage(kind) ==
    CASE kind = "pushup" -> "Position body with arms visible"
      [] kind = "squat"  -> "Position legs for detection"
      [] kind = "situp"  -> "Position your body fully"

IncompleteMessage(kind) ==
    CASE kind = "pushup" -> "Incomplete rep - extend fully"
      [] kind = "squat"  -> "Incomplete rep - stand up fully"
      [] kind = "situp"  -> "Incomplete rep - lie back fully"

ReadyMessage(kind) ==
    CASE kind = "pushup" -> "Ready - Lower your body"
      [] kind = "squat"  -> "Ready - Squat down"
      [] kind = "situp"  -> "Ready - Curl up"

DownMessages(kind) ==
    CASE kind = "pushup" -> {"Perfect form! Keep going", "Good form - go lower",
                             "Go lower for full rep"}
      [] kind = "squat"  -> {"Excellent depth!", "Good depth - keep going",
                             "Go lower for full squat"}
      [] kind = "situp"  -> {"Great curl! Complete it", "Keep curling up"}

\* the three down-phase messages: the `if`, the `else if` and the `else`
\* branch (the sit-up detector has no `else if`)
ExcellentMessage(kind) ==
    CASE kind = "pushup" -> "Perfect form! Keep going"
      [] kind = "squat"  -> "Excellent depth!"
      [] kind = "situp"  -> "Great curl! Complete it"

GoodMessage(kind) ==
    CASE kind = "pushup" -> "Good form - go lower"
      [] kind = "squat"  -> "Good depth - keep going"
      [] kind = "situp"  -> "Keep curling up"

NeedsWorkMessage(kind) ==
    CASE kind = "pushup" -> "Go lower for full rep"
      [] kind = "squat"  -> "Go lower for full squat"
      [] kind = "situp"  -> "Keep curling up"

\* the band of a metric by the thresholds in the code: excellent below the
\* first, good below the second, needs-work from the second on
BandMessage(kind, metric) ==
    CASE kind = "pushup" -> IF metric < 15 THEN ExcellentMessage(kind)
                            ELSE IF metric < 50 THEN GoodMessage(kind)
                            ELSE NeedsWorkMessage(kind)
      [] kind = "squat"  -> IF metric < 80 THEN ExcellentMessage(kind)
                            ELSE IF metric < 100 THEN GoodMessage(kind)
                            ELSE NeedsWorkMessage(kind)
      [] kind = "situp"  -> IF metric < 90 THEN ExcellentMessage(kind)
                            ELSE NeedsWorkMessage(kind)

\* the last call was a detectRep that took the detector out of the down
\* position with a metric above the start threshold
UpTransitionAboveStart ==
    /\ op = "detectRep"
    /\ pre.isInDownPosition
    /\ ~det.isInDownPosition
    /\ det.lastAngle > startPositionThreshold(det.kind)

\* C1: over any detectRep call of any of the three detectors, getReps() does
\* not decrease and grows by at most 1.
C1_RepsMonotone ==
    op = "detectRep" =>
        /\ getReps(det) >= pre.lastReps
        /\ getReps(det) <= pre.lastReps + 1

C1_Witness ==
    op = "detectRep" /\ pre.lastReps = 1 /\ getReps(det) = 2

\* C2: a fresh PushupDetector fed the elbow angles 170, 160, 20, 15, 160, 170
\* at full confidence counts no rep before the 5th frame, returns true on the
\* 5th frame with the feedback 'Perfect! Rep counted', and has counted exactly
\* one rep after the 6th.
C2_PushupScenario ==
    det.kind = "pushup" =>
        /\ (fed # Off /\ Len(fed) < 5) => getReps(det) = 0
        /\ fed = <<170, 160, 20, 15, 160>> =>
              /\ ret
              /\ getReps(det) = 1
              /\ getFormFeedback(det) = "Perfect! Rep counted"
        /\ fed = <<170, 160, 20, 15, 160, 170>> => (~ret /\ getReps(det) = 1)

\* C3: a fresh SquatDetector fed the knee angles 150, 90, 70, 150 at full
\* confidence is in the down position after the 70 frame, and on the final
\* 150 frame returns true and has counted exactly one rep.
C3_SquatScenario ==
    det.kind = "squat" =>
        /\ fed = <<150, 90, 70>> => (det.isInDownPosition /\ getReps(det) = 0)
        /\ fed = <<150, 90, 70, 150>> => (ret /\ getReps(det) = 1)

\* C4: every down-then-up cycle counts: when an accepted frame was below the
\* end threshold and a later accepted frame is the first above the start
\* threshold, with the debounce gap elapsed, that frame counts a rep, whatever
\* accepted frames between the two thresholds lie in between.
C4_CycleCounted ==
    ( /\ op = "detectRep"
      /\ GatePassed(det.kind, arg)
      /\ pre.armed
      /\ det.lastAngle > startPositionThreshold(det.kind)
      /\ det.frameCount - pre.lastRepFrameCount > framesBetweenReps )
    => (ret /\ getReps(det) = pre.lastReps + 1)

\* C5: a detectRep call that changes getReps() found the detector in the down
\* position, leaves it out of it, and saw a metric strictly above the start
\* threshold.
C5_CountOnlyOnUpTransition ==
    (op = "detectRep" /\ getReps(det) # pre.lastReps) => UpTransitionAboveStart

C5_Witness ==
    UpTransitionAboveStart /\ ret /\ getReps(det) = pre.lastReps + 1
    /\ det.kind = "squat"

\* C6: a detectRep call whose frame has an essential landmark with score not
\* above 0.3, or whose visible involved landmarks have a mean score below 0.5,
\* returns false and leaves getReps() unchanged.
C6_GateBlocksCounting ==
    ( /\ op = "detectRep"
      /\ EssentialHidden(det.kind, arg) \/ AggregateLow(det.kind, arg) )
    => (~ret /\ getReps(det) = pre.lastReps)

\* a rejected frame that found the detector down with the debounce elapsed
C6_Witness ==
    /\ op = "detectRep"
    /\ EssentialHidden(det.kind, arg)
    /\ pre.isInDownPosition
    /\ det.frameCount - det.lastRepFrameCount > framesBetweenReps
    /\ ~ret

\* C7 as stated: a frame whose essential landmarks are visible and whose
\* supporting landmarks have a mean score below 0.5 returns false with the
\* low-visibility feedback.
C7_SupportLowRejected ==
    ( /\ op = "detectRep"
      /\ ~EssentialHidden(det.kind, arg)
      /\ SupportLow(det.kind, arg) )
    => (~ret /\ getFormFeedback(det) = LowVisibilityMessage(det.kind))

\* C7 as amended: a frame whose essential landmarks are visible and whose
\* visible involved landmarks (essential and supporting, score above 0.3)
\* have a mean score below 0.5 returns false with the low-visibility feedback,
\* whatever the metric.
C7_AggregateLowRejected ==
    ( /\ op = "detectRep"
      /\ ~EssentialHidden(det.kind, arg)
      /\ AggregateLow(det.kind, arg) )
    => (~ret /\ getFormFeedback(det) = LowVisibilityMessage(det.kind))

\* a dim frame with the metric above start, met in the down position with the
\* debounce elapsed
C7_Witness ==
    /\ op = "detectRep"
    /\ ~EssentialHidden(det.kind, arg)
    /\ AggregateLow(det.kind, arg)
    /\ pre.isInDownPosition
    /\ det.lastAngle > startPositionThreshold(det.kind)
    /\ det.frameCount - det.lastRepFrameCount > framesBetweenReps
    /\ getFormFeedback(det) = LowVisibilityMessage(det.kind)

\* C8: an up transition above the start threshold that comes fewer than
\* framesBetweenReps calls after a counted rep is not counted: the call
\* returns false and getReps() is unchanged.
C8_Debounce ==
    ( /\ UpTransitionAboveStart
      /\ pre.lastReps >= 1
      /\ det.frameCount - pre.lastRepFrameCount < framesBetweenReps )
    => (~ret /\ getReps(det) = pre.lastReps)

C8_Witness ==
    /\ UpTransitionAboveStart
    /\ pre.lastReps >= 1
    /\ det.frameCount - pre.lastRepFrameCount < framesBetweenReps
    /\ ~ret
    /\ getReps(det) = 1

\* C9: an up transition above the start threshold is counted whenever at
\* least framesBetweenReps calls have passed since the last counted rep.
C9_DebounceBoundary ==
    ( /\ UpTransitionAboveStart
      /\ pre.lastReps >= 1
      /\ det.frameCount - pre.lastRepFrameCount >= framesBetweenReps )
    => (ret /\ getReps(det) = pre.lastReps + 1)

\* C10: detectRep returns true exactly when getReps() after the call is one
\* more than before it.
C10_ReturnIffCounted ==
    op = "detectRep" => (ret <=> getReps(det) = pre.lastReps + 1)

C10_Witness ==
    op = "detectRep" /\ ret /\ getReps(det) = pre.lastReps + 1 /\ det.kind = "situp"

\* C11: a new push-up detector fed the full-confidence angles 170, 20, 100,
\* 170 counts no rep on any frame of the sequence, and after the 100 frame
\* the feedback is 'Incomplete rep - extend fully'.
C11_IncompleteScenario ==
    (det.kind = "pushup" /\ fed # Off /\ IsPrefix(fed, <<170, 20, 100, 170>>))
        => /\ getReps(det) = 0
           /\ ~ret
           /\ (fed = <<170, 20, 100>>
                  => getFormFeedback(det) = "Incomplete rep - extend fully")

C11_Witness ==
    /\ det.kind = "pushup"
    /\ fed = <<170, 20, 100, 170>>
    /\ getReps(det) = 0

\* C12: reset() makes the detector count like a new one: right after it
\* getReps() is 0, isInDownPosition is false, frameCount and
\* lastRepFrameCount are 0; and on every frame sequence fed afterwards the
\* values detectRep returns and getReps() are those of a new detector fed
\* the same frames.
C12_ResetCountsLikeNew ==
    /\ op = "reset" => /\ getReps(det) = 0
                       /\ ~det.isInDownPosition
                       /\ det.frameCount = 0
                       /\ det.lastRepFrameCount = 0
    /\ twin.afterReset => /\ getReps(det) = getReps(twin.det)
                          /\ ret = twin.ret

C12_Witness ==
    /\ twin.afterReset
    /\ op = "detectRep"
    /\ ret
    /\ twin.ret
    /\ getReps(det) = 1

\* C13: after reset() getFormFeedback() is the string a new detector
\* returns, and it stays equal to the new detector's on every frame sequence
\* fed to both afterwards.
C13_ResetFeedbackLikeNew ==
    twin.afterReset => getFormFeedback(det) = getFormFeedback(twin.det)

\* C14: every detectRep call leaves in formQuality a message of the frame's
\* own outcome: the positioning message when an essential landmark is
\* hidden, the low-visibility message when the aggregate is low, the
\* counted-rep message when the call returns true, a depth message when the
\* frame is in the down phase, and the incomplete-rep or the ready message
\* otherwise; never the message of an earlier frame.
C14_FeedbackRefreshed ==
    op = "detectRep" =>
        IF EssentialHidden(det.kind, arg)
        THEN getFormFeedback(det) = PositionMessage(det.kind)
        ELSE IF AggregateLow(det.kind, arg)
        THEN getFormFeedback(det) = LowVisibilityMessage(det.kind)
        ELSE IF ret
        THEN getFormFeedback(det) = "Perfect! Rep counted"
        ELSE IF det.isInDownPosition
        THEN getFormFeedback(det) \in DownMessages(det.kind)
        ELSE getFormFeedback(det) \in {IncompleteMessage(det.kind), ReadyMessage(det.kind)}

\* C15: on a push-up or squat frame where neither body side has its full
\* landmark triple visible, detectRep returns false and counts no rep.
C15_NoMeasurementNoRep ==
    ( /\ op = "detectRep"
      /\ det.kind \in {"pushup", "squat"}
      /\ \A t \in Triples(det.kind) : Visible(arg, t) # t )
    => (~ret /\ getReps(det) = pre.lastReps)

\* C16: detectRep never raises an error.  For every pose of 17 landmarks,
\* whatever combination of them is hidden, and in every state of the
\* detector, the call reads no property of an absent landmark and returns a
\* boolean; a frame it cannot use is reported by a false return value and a
\* diagnostic feedback string.
C16_NeverThrows ==
    /\ op = "new" =>
          \A hidden \in SUBSET Involved(det.kind) :
              ~Throws(det.kind, HiddenFrame(det.kind, hidden))
    /\ op = "detectRep" =>
          /\ ~Throws(det.kind, arg)
          /\ ret \in BOOLEAN
          /\ ~GatePassed(det.kind, arg) =>
                /\ ~ret
                /\ getFormFeedback(det) \in {PositionMessage(det.kind),
                                             LowVisibilityMessage(det.kind)}

C16_Witness ==
    /\ op = "detectRep"
    /\ EssentialHidden(det.kind, arg)
    /\ Visible(arg, Supporting(det.kind)) = Supporting(det.kind)
    /\ det.isInDownPosition
    /\ ~ret
    /\ getFormFeedback(det) = PositionMessage(det.kind)

\* C17: two detector instances are independent: a detectRep or reset call
\* on one instance changes no field (rep count, phase flag, last angle,
\* frame counters, feedback) of the other instance, in any interleaving.
C17_InstancesIndependent ==
    [][ \A i \in {1, 2} :
           (refs[i] # 0 /\ target' # i)
               => (refs'[i] = refs[i] /\ heap'[refs[i]] = heap[refs[i]]) ]_vars

C17_Witness ==
    /\ refs[1] # 0
    /\ refs[2] # 0
    /\ target = 2
    /\ heap[refs[1]].lastReps = 1
    /\ heap[refs[2]].lastReps = 0
    /\ heap[refs[2]].isInDownPosition
    /\ heap[refs[2]].frameCount < heap[refs[1]].frameCount

\* C18 as claimed: after every detectRep call that computed the metric,
\* isInDownPosition equals (the frame's metric < endPositionThreshold),
\* whatever the earlier frames were.
C18_PhaseOfCurrentFrame ==
    (op = "detectRep" /\ ~EssentialHidden(det.kind, arg))
    => (det.isInDownPosition <=> det.lastAngle < endPositionThreshold(det.kind))

\* C18 as amended: after a detectRep call on a frame that passes both gates,
\* isInDownPosition equals (the frame's metric < endPositionThreshold); a
\* call on a rejected frame leaves isInDownPosition as it was.
C18_PhaseOfAcceptedFrame ==
    op = "detectRep" =>
        IF GatePassed(det.kind, arg)
        THEN det.isInDownPosition <=> det.lastAngle < endPositionThreshold(det.kind)
        ELSE det.isInDownPosition <=> pre.isInDownPosition

C18_Witness ==
    /\ op = "detectRep"
    /\ GatePassed(det.kind, arg)
    /\ pre.isInDownPosition
    /\ ~det.isInDownPosition
    /\ det.lastAngle >= endPositionThreshold(det.kind)
    /\ det.lastAngle < startPositionThreshold(det.kind)

\* C19: a detectRep call on a frame with an essential landmark hidden
\* returns false, sets the positioning message of the exercise and advances
\* frameCount; lastReps, isInDownPosition, lastAngle and lastRepFrameCount
\* stay as they were.
C19_MissingEssentialFrame ==
    [][ (op' = "detectRep" /\ EssentialHidden(det.kind, arg'))
          => /\ ret' = FALSE
             /\ det' = [det EXCEPT !.frameCount = @ + 1,
                                   !.formQuality = PositionMessage(det.kind)] ]_vars

C19_Witness ==
    /\ op = "detectRep"
    /\ EssentialHidden(det.kind, arg)
    /\ ~ret
    /\ getFormFeedback(det) = PositionMessage(det.kind)
    /\ getReps(det) = 1
    /\ det.isInDownPosition
    /\ det.lastAngle < endPositionThreshold(det.kind)
    /\ det.frameCount > det.lastRepFrameCount + 1

\* C20: a detectRep call on a frame whose essential landmarks are visible
\* and whose visible involved landmarks have a mean score below 0.5 returns
\* false, sets the low-visibility message and leaves lastReps,
\* isInDownPosition and lastRepFrameCount as they were.
C20_LowConfidenceFrame ==
    ( /\ op = "detectRep"
      /\ ~EssentialHidden(det.kind, arg)
      /\ AggregateLow(det.kind, arg) )
    => /\ ~ret
       /\ getFormFeedback(det) = LowVisibilityMessage(det.kind)
       /\ getReps(det) = pre.lastReps
       /\ det.isInDownPosition = pre.isInDownPosition
       /\ det.lastRepFrameCount = pre.lastRepFrameCount

C20_Witness ==
    /\ op = "detectRep"
    /\ ~EssentialHidden(det.kind, arg)
    /\ AggregateLow(det.kind, arg)
    /\ ~ret
    /\ pre.isInDownPosition
    /\ det.isInDownPosition
    /\ det.lastAngle > startPositionThreshold(det.kind)
    /\ getReps(det) = 1

\* C21: on every frame that takes the detector out of the down position
\* with a metric not above startPositionThreshold (less than or equal to
\* it), no rep is counted, the feedback is the exercise's incomplete-rep
\* message and isInDownPosition is false.
C21_IncompleteTransition ==
    ( /\ op = "detectRep"
      /\ GatePassed(det.kind, arg)
      /\ pre.isInDownPosition
      /\ det.lastAngle >= endPositionThreshold(det.kind)
      /\ det.lastAngle <= startPositionThreshold(det.kind) )
    => /\ ~ret
       /\ getReps(det) = pre.lastReps
       /\ getFormFeedback(det) = IncompleteMessage(det.kind)
       /\ ~det.isInDownPosition

\* C22: every detectRep call that returns true adds exactly 1 to lastReps,
\* sets lastRepFrameCount to the frameCount of the call and sets the
\* feedback to 'Perfect! Rep counted'.
C22_CountedRepEffects ==
    (op = "detectRep" /\ ret)
    => /\ getReps(det) = pre.lastReps + 1
       /\ det.lastRepFrameCount = det.frameCount
       /\ getFormFeedback(det) = "Perfect! Rep counted"

C22_Witness ==
    /\ op = "detectRep"
    /\ ret
    /\ det.kind = "squat"
    /\ getReps(det) = 2
    /\ pre.lastReps = 1
    /\ det.lastRepFrameCount = det.frameCount
    /\ pre.lastRepFrameCount < det.frameCount

\* C23: every detectRep call adds exactly 1 to frameCount, the calls
\* rejected by the missing-landmark or the low-confidence gate included; a
\* rejected call leaves lastRepFrameCount alone, so it adds 1 to the gap
\* the debounce measures.
C23_FrameCountPerCall ==
    [][ op' = "detectRep" =>
          /\ det'.frameCount = det.frameCount + 1
          /\ ~GatePassed(det.kind, arg') =>
                det'.frameCount - det'.lastRepFrameCount
                    = det.frameCount - det.lastRepFrameCount + 1 ]_vars

C23_Witness ==
    /\ op = "detectRep"
    /\ ~GatePassed(det.kind, arg)
    /\ getReps(det) = 1
    /\ det.isInDownPosition
    /\ det.frameCount - det.lastRepFrameCount = framesBetweenReps + 1

\* C24: the phase survives rejected frames.  When the last frame that
\* passed both gates was a down frame and the frames since were rejected by
\* the missing-landmark or the low-confidence gate, the next frame that
\* passes both gates with a metric above startPositionThreshold, the
\* debounce being satisfied, counts a rep.
C24_PhaseSurvivesRejected ==
    [][ ( /\ downAccepted
          /\ op = "detectRep"
          /\ ~GatePassed(det.kind, arg)
          /\ op' = "detectRep"
          /\ GatePassed(det.kind, arg')
          /\ det'.lastAngle > startPositionThreshold(det.kind)
          /\ det'.frameCount - det.lastRepFrameCount > framesBetweenReps )
        => (ret' /\ det'.lastReps = det.lastReps + 1) ]_vars

C24_Witness ==
    /\ held
    /\ op = "detectRep"
    /\ GatePassed(det.kind, arg)
    /\ det.lastAngle > startPositionThreshold(det.kind)
    /\ ret
    /\ getReps(det) = 2

\* C25 as claimed: the metric of the push-up and of the squat detector is
\* the minimum of the left and the right joint angle, a side whose triple
\* is not visible contributing 180; with both sides occluded the metric is
\* 180 and the detector is not in the down position.
C25_MetricOfSides ==
    ( /\ op = "detectRep"
      /\ det.kind \in {"pushup", "squat"}
      /\ ~EssentialHidden(det.kind, arg) )
    => LET l == SideMetric(arg, LeftTriple(det.kind))
           r == SideMetric(arg, RightTriple(det.kind))
       IN  /\ det.lastAngle = (IF l <= r THEN l ELSE r)
           /\ SidesOccluded(det.kind, arg)
                 => (det.lastAngle = 180 /\ ~det.isInDownPosition)

\* C25 as amended: the same, the detector being out of the down position
\* after a frame with both sides occluded when that frame passes the
\* confidence gate.
C25_MetricOfSidesAccepted ==
    ( /\ op = "detectRep"
      /\ det.kind \in {"pushup", "squat"}
      /\ ~EssentialHidden(det.kind, arg) )
    => LET l == SideMetric(arg, LeftTriple(det.kind))
           r == SideMetric(arg, RightTriple(det.kind))
       IN  /\ det.lastAngle = (IF l <= r THEN l ELSE r)
           /\ SidesOccluded(det.kind, arg)
                 => /\ det.lastAngle = 180
                    /\ GatePassed(det.kind, arg) => ~det.isInDownPosition

\* one side occluded and bent, the other visible and straighter: the
\* metric is the visible side's angle
C25_Witness ==
    /\ op = "detectRep"
    /\ det.kind = "squat"
    /\ GatePassed(det.kind, arg)
    /\ SideMetric(arg, LeftTriple(det.kind)) = 180
    /\ calculateAngle(arg.keypoints[11], arg.keypoints[13], arg.keypoints[15]) = 70
    /\ SideMetric(arg, RightTriple(det.kind)) = 100
    /\ det.lastAngle = 100
    /\ pre.isInDownPosition
    /\ ~det.isInDownPosition

\* C26: on a frame that passes both gates and is no down->up transition the
\* feedback follows the table of bands: every band is emitted for the
\* metrics in its range (push-up: excellent below 15, good from 15 to 50,
\* needs-work from 50; squat: 80 and 100; sit-up: excellent below 90,
\* needs-work from 90), and the readiness message is emitted when the
\* detector is not in the down position, which leaves it to the frames
\* above startPositionThreshold.
C26_FeedbackBands ==
    ( /\ op = "detectRep"
      /\ GatePassed(det.kind, arg)
      /\ ~(pre.isInDownPosition /\ ~det.isInDownPosition) )
    => /\ det.isInDownPosition
            => getFormFeedback(det) = BandMessage(det.kind, det.lastAngle)
       /\ ~det.isInDownPosition
            => getFormFeedback(det) \in {ReadyMessage(det.kind),
                                         BandMessage(det.kind, det.lastAngle)}
       /\ det.lastAngle <= startPositionThreshold(det.kind)
            => getFormFeedback(det) = BandMessage(det.kind, det.lastAngle)

\* C27: the push-up detector never emits 'Go lower for full rep' and the
\* squat detector never emits 'Go lower for full squat'; and whenever a call
\* reports the good band (the frame passes both gates and leaves the
\* detector in the down position) the metric is in 15..25 for the push-up
\* and in 80..85 for the squat.
C27_NeedsWorkNeverEmitted ==
    /\ det.kind = "pushup" =>
          /\ getFormFeedback(det) # "Go lower for full rep"
          /\ ( /\ op = "detectRep"
               /\ GatePassed(det.kind, arg)
               /\ det.isInDownPosition
               /\ getFormFeedback(det) = "Good form - go lower" )
             => (15 <= det.lastAngle /\ det.lastAngle < 25)
    /\ det.kind = "squat" =>
          /\ getFormFeedback(det) # "Go lower for full squat"
          /\ ( /\ op = "detectRep"
               /\ GatePassed(det.kind, arg)
               /\ det.isInDownPosition
               /\ getFormFeedback(det) = "Good depth - keep going" )
             => (80 <= det.lastAngle /\ det.lastAngle < 85)

C27_Witness ==
    /\ op = "detectRep"
    /\ det.kind = "pushup"
    /\ GatePassed(det.kind, arg)
    /\ det.isInDownPosition
    /\ det.lastAngle = 15
    /\ getFormFeedback(det) = "Good form - go lower"

\* C28: in every state lastReps * (framesBetweenReps + 1) <= frameCount: no
\* rep is counted during the first 10 detectRep calls after construction or
\* reset(), and two counted reps are at least 11 calls apart.
C28_RepsBoundedByFrames ==
    /\ getReps(det) * (framesBetweenReps + 1) <= det.frameCount
    /\ (op = "detectRep" /\ ret)
          => det.frameCount - pre.lastRepFrameCount >= framesBetweenReps + 1

C28_Witness ==
    /\ op = "detectRep"
    /\ ret
    /\ getReps(det) = 2
    /\ det.frameCount = 2 * (framesBetweenReps + 1)
    /\ pre.lastRepFrameCount = framesBetweenReps + 1

\* C29: right after a counted rep isInDownPosition is false, and a rep is
\* counted only if, since the last counted rep (or since construction or
\* reset), a frame passed both gates with a metric below
\* endPositionThreshold and no accepted frame above startPositionThreshold
\* came after it; frames held in the up position count no second rep.
C29_DownFrameBetweenReps ==
    /\ (op = "detectRep" /\ ret) => (~det.isInDownPosition /\ pre.armed /\ ~armed)
    /\ (op = "detectRep" /\ ~pre.armed) => (~ret /\ getReps(det) = pre.lastReps)

C29_Witness ==
    /\ op = "detectRep"
    /\ GatePassed(det.kind, arg)
    /\ det.lastAngle > startPositionThreshold(det.kind)
    /\ ~pre.armed
    /\ ~ret
    /\ getReps(det) = 1
    /\ det.frameCount - det.lastRepFrameCount > framesBetweenReps

\* C30: in every state 0 <= lastRepFrameCount <= frameCount, and
\* lastRepFrameCount is 0 exactly when lastReps is 0, right after reset()
\* included.
C30_LastRepFrameCountRange ==
    /\ 0 <= det.lastRepFrameCount
    /\ det.lastRepFrameCount <= det.frameCount
    /\ det.lastRepFrameCount = 0 <=> getReps(det) = 0

C30_Witness ==
    /\ op = "reset"
    /\ pre.lastReps = 2
    /\ pre.lastRepFrameCount > 0
    /\ det.lastRepFrameCount = 0
    /\ getReps(det) = 0

---------------------------------------------------------------------------
(* The helpers *)

\* C36: getKeypoint returns the entry at the index when its score is
\* strictly above 0.3, and null when the score is 0.3 or lower or the pose
\* has no entry at the index.
C36_GetKeypointStrict ==
    op = "getKeypoint" =>
        LET kps == arg.pose.keypoints
            i == arg.index
        IN  IF i \in DOMAIN kps /\ kps[i].score > 30
            THEN ret = kps[i]
            ELSE ret = null

\* an entry with score exactly 0.3 was asked for and null came back
C36_Witness ==
    /\ op = "getKeypoint"
    /\ arg.index \in DOMAIN arg.pose.keypoints
    /\ arg.pose.keypoints[arg.index].score = 30
    /\ ret = null

\* C37: getMeanConfidence returns the mean score of the visible keypoints
\* alone (absent ones do not enter the division), 0 when none is visible,
\* and a value above 0.3 whenever at least one is visible.
C37_MeanOfVisible ==
    op = "getMeanConfidence" =>
        LET visible == {i \in DOMAIN arg.keypoints : arg.keypoints[i].score > 30}
        IN  IF visible = {}
            THEN ret = 0
            ELSE /\ ret * Cardinality(visible) = SumOver(arg, visible) * MeanScale
                 /\ ret > 30 * MeanScale

\* a list with an absent and a visible keypoint was averaged
C37_Witness ==
    /\ op = "getMeanConfidence"
    /\ \E i \in DOMAIN arg.keypoints : arg.keypoints[i].score = 30
    /\ \E i \in DOMAIN arg.keypoints : arg.keypoints[i].score = 31
    /\ ret > 30 * MeanScale

\* four times the squared distance from the nose to the midpoint of the hips,
\* in squared coordinate steps
NoseToHips4(pose) ==
    LET k == pose.keypoints
        dx == 2 * k[0].x - k[11].x - k[12].x
        dy == 2 * k[0].y - k[11].y - k[12].y
    IN  dx * dx + dy * dy

\* C38: on a frame whose nose and hips are visible the sit-up metric is
\* min(50 * distance(nose, midpoint of the hips), 180), to the whole number
\* below; it lies in 0 .. 180 and is the same wherever the shoulders are and
\* whatever their scores.
C38_SitupMetric ==
    (op = "normalizedAngle" /\ ~EssentialHidden("situp", arg)) =>
        LET m == ret.lastAngle
            d4 == NoseToHips4(arg)
        IN  /\ m \in 0 .. 180
            /\ IF 25 * d4 >= 4 * 180 * 180
               THEN m = 180
               ELSE 4 * m * m <= 25 * d4 /\ 25 * d4 < 4 * (m + 1) * (m + 1)
            /\ \A s \in LeftShoulders, sc \in {0, 40, ScoreScale} :
                   SitupMetric([arg EXCEPT !.keypoints[5] = Point(s[1], s[2], sc),
                                           !.keypoints[6] = Point(s[1] + 40, s[2], sc)]
                              ).lastAngle = m

\* a frame with hidden shoulders and the nose 5.2 units from the hips gave 180
C38_Witness ==
    /\ op = "normalizedAngle"
    /\ ~EssentialHidden("situp", arg)
    /\ arg.keypoints[5].score <= VisibilityThreshold
    /\ 25 * NoseToHips4(arg) > 4 * 180 * 180
    /\ ret.lastAngle = 180

\* b lies on the segment from a to c, strictly inside it
StrictlyBetween(a, b, c) ==
    /\ (a.x - b.x) * (c.y - b.y) = (a.y - b.y) * (c.x - b.x)
    /\ (a.x - b.x) * (c.x - b.x) + (a.y - b.y) * (c.y - b.y) < 0

SamePoint(p, q) == p.x = q.x /\ p.y = q.y

---------------------------------------------------------------------------
(* LiveTrainingCamera *)

\* C31: once the cleanup has run, no animation frame is requested and
\* detectRep is not called any more, a cleanup that finds a pose estimation
\* awaiting included.
C31_LoopStopsAfterCleanup ==
    (cam.boot # "none" /\ ~cam.mounted) => (~cam.lateRequest /\ ~cam.lateDetectRep)

\* C32: between two runs of initializeDetector the completion branch is
\* taken at most once, and only in a detectFrame call whose detectRep
\* returned true with getReps() >= requiredReps.
C32_CompletionAtMostOnce ==
    cam.boot # "none" =>
        /\ cam.completions <= 1
        /\ cam.completions > 0 => (cam.counted > 0 /\ cam.onComplete
                                   /\ AtLeast(cam.counted, cam.requiredReps))

\* C33: at most one detectFrame call is under way at any time, requested or
\* awaiting its pose: a frame is requested only when no call awaits, so two
\* detectRep calls never overlap.
C33_SingleSerialLoop ==
    cam.boot # "none" => cam.pending + cam.inflight <= 1

\* the loop has run some frames on the detector and awaits the next pose
C33_Witness ==
    /\ cam.boot = "running"
    /\ cam.mounted
    /\ op = "detectFrame"
    /\ cam.inflight = 1
    /\ cam.pending = 0
    /\ det.frameCount >= 2

\* C34: the exerciseType effect puts a new detector of the selected variant
\* with getReps() = 0 in detectorRef and clears the completion flag; from
\* then on the frames use a detector of the selected variant, and every
\* value passed to onRepsUpdate is the number of reps counted since.
C34_ExerciseChangeDiscardsDetector ==
    /\ []((cam.boot # "none" /\ cam.mounted /\ cam.hasDetector /\ ~cam.effectDue)
            => det.kind = cam.exerciseType)
    /\ []((cam.boot # "none" /\ cam.reported # <<>>)
            => (cam.reported[1] = cam.counted /\ cam.reported[1] = getReps(det)))
    /\ [][(op' = "exerciseTypeEffect" /\ cam.librariesLoaded) =>
            /\ det' = NewDetector(cam'.exerciseType)
            /\ getReps(det') = 0
            /\ ~cam'.completionTriggered
            /\ cam'.reported = <<>>]_vars

\* a detector that had counted a rep was replaced and the new detector's
\* first rep was reported as 1
C34_Witness ==
    /\ cam.boot = "running"
    /\ cam.inits = 2
    /\ cam.discarded >= 1
    /\ op = "detectRep"
    /\ ret
    /\ cam.reported = <<1>>
    /\ det.kind = cam.exerciseType

---------------------------------------------------------------------------
(* TrainingModal *)

\* a user and a session start time exist and reps >= requiredReps, in the
\* state of the modal or in the values that went into a row or a call
GuardMet(x) == x.user # "none" /\ x.sessionStartTime # 0 /\ x.reps >= x.requiredReps

RowGuardMet(row) ==
    row.user_id # "none" /\ row.sessionStartTime # 0
        /\ row.reps_completed >= row.requiredReps

\* C35: handleEndSession inserts a session row, updates the XP of the user
\* and calls onSessionComplete only in a call that found a user, a session
\* start time and reps >= requiredReps; a call that finds otherwise writes
\* nothing, starts nothing and leaves isTraining, selectedExercise, reps and
\* sessionStartTime as they were.
C35_SavedOnlyWhenThresholdMet ==
    /\ [](app.open =>
            /\ \A call \in app.calls : GuardMet(call)
            /\ \A i \in DOMAIN app.sessions : RowGuardMet(app.sessions[i])
            /\ \A i \in DOMAIN app.completed : GuardMet(app.completed[i]))
    /\ [][(app.open /\ app'.open) =>
            /\ app'.sessions # app.sessions =>
                   \E call \in app.calls : call.at = "insert" /\ GuardMet(call)
            /\ app'.users # app.users =>
                   \E call \in app.calls : call.at = "update" /\ GuardMet(call)
            /\ app'.completed # app.completed =>
                   \E call \in app.calls : call.at = "update" /\ GuardMet(call)
            /\ (op' = "handleEndSession" /\ ~GuardMet(app)) =>
                   (app' = app /\ ret' = FALSE)]_vars

\* a session was inserted, the XP raised and onSessionComplete called, and
\* the modal is back in its idle state
C35_Witness ==
    /\ app.open
    /\ op = "update"
    /\ ret
    /\ Len(app.sessions) = 1
    /\ Len(app.completed) = 1
    /\ app.sessions[1].reps_completed >= RequiredReps
    /\ app.users.total_xp = 7 + app.completed[1].xpEarned
    /\ ~app.isTraining
    /\ app.sessionStartTime = 0

====
